---- MODULE Spec2Model ----
(***************************************************************************)
(* The auction-and-escrow lifecycle engine of the Granite marketplace      *)
(* (MarketplaceService) over its PostgreSQL store and its escrow gateway.  *)
(*                                                                         *)
(* Every service method runs inside db.transaction(...) with no isolation  *)
(* level given, i.e. PostgreSQL READ COMMITTED: each statement reads the   *)
(* rows committed when it runs, a transaction's writes become visible at   *)
(* its commit, and an UPDATE of a row that another open transaction has    *)
(* updated waits for that transaction and then re-evaluates its WHERE      *)
(* clause on the row's newest committed version.  A method is therefore    *)
(* split into two steps at the point where other transactions interleave   *)
(* observably: the step that does its reads (and, in closeAuction, takes   *)
(* the lock of the slot row), and the step that does its gateway calls     *)
(* and its writes and commits or rolls back.  Gateway calls are external   *)
(* effects that no transaction observes, and the writes of a transaction   *)
(* are invisible until its commit, so they move to the commit.             *)
(*                                                                         *)
(* Time is counted in half days.  Only the comparison of the clock with    *)
(* auctionEndsAt and deadlineAt matters to the engine, so the clock moves  *)
(* from one instant at which such a comparison can change to the next:     *)
(* the end of an auction, a deadline, and the instant after a deadline.    *)
(* Ids stand for the random UUIDs; they are handed out in commit order.    *)
(* Columns no method reads (category, categories, inviteOnly, email,       *)
(* ratingInternal, slots.createdAt) are left out.                          *)
(***************************************************************************)
EXTENDS Integers, Sequences, FiniteSets, Bags, TLC

\* ------------------------------------------------------------------ bounds
MaxSlots == 3
MaxBids == 2
MaxNow == 17
\* transactions open at the same time (HTTP requests and cron ticks)
MaxOpen == 2
\* placeBid transactions that fail after their lockFunds call succeeded
MaxLost == 1

\* ------------------------------------------------------- program constants
\* ONE_DAY_MS, in half days
ONE_DAY == 2

daysByTier(tier) ==
  CASE tier = "7_DAYS" -> 7
    [] tier = "14_DAYS" -> 14
    [] tier = "30_DAYS" -> 30

deadlineFromTier(startedAt, tier) == startedAt + daysByTier(tier) * ONE_DAY

\* PLATFORM_FEE_RATE = 0.12, in percent
PLATFORM_FEE_RATE == 12

\* a fee of 10%
PlatformFeeOfTenth(clearingPrice) == clearingPrice \div 10

\* the fee rounded up instead of down
PlatformFeeRoundedUp(clearingPrice) == (clearingPrice * PLATFORM_FEE_RATE + 99) \div 100

\* Math.floor(clearingPrice * PLATFORM_FEE_RATE): the double nearest to 0.12
\* is below 0.12 by less than half a unit in the last place of any product with
\* an integer of cents, so the product rounds to clearingPrice * 12 / 100 when
\* that is an integer and keeps its integer part otherwise
PlatformFee(clearingPrice) == (clearingPrice * PLATFORM_FEE_RATE) \div 100

\* validation that lets every amount through
requireNothing(amount) == TRUE

\* !Number.isInteger(amount) || amount <= 0 throws; the amounts here are
\* integers (placeBid below turns the fractions away)
requirePositiveCents(amount) == amount > 0

\* ------------------------------------------------------------------ inputs
\* the rows of table users, which the engine never writes
\* (d1 is a verified OWNER now and was an EXECUTIVE when creating a slot)
users ==
  [u \in {"e1", "e2", "o1", "o2", "d1"} |->
     CASE u = "e1" -> [type |-> "EXECUTIVE", verified |-> TRUE]
       [] u = "e2" -> [type |-> "EXECUTIVE", verified |-> FALSE]
       [] u = "o1" -> [type |-> "OWNER", verified |-> TRUE]
       [] u = "o2" -> [type |-> "OWNER", verified |-> FALSE]
       [] u = "d1" -> [type |-> "OWNER", verified |-> TRUE]]

Executives == {"e1"}
Owners == {"o1"}
Tiers == {"7_DAYS"}
ReservePrices == {60}
Amounts == {50, 70, 100}

SlotIds == 1..MaxSlots
ContractIds == 1..MaxSlots

\* ------------------------------------------------------------------- state
VARIABLES
  now,        \* the wall clock (new Date())
  slots,      \* table slots: sequence, id = index
  profiles,   \* table executive_profiles: executive id -> row
  bids,       \* table bids: sequence, id = index
  contracts,  \* table contracts: sequence, id = index
  open,       \* the open transactions (a bag): method and locals of each
  calls,      \* the gateway calls issued by the last step, in order
  ret,        \* what the method that ended in the last step returned or threw
  events,     \* the notifier calls made by the last step, in order
  ledger      \* the gateway: the calls it has answered with success

vars == <<now, slots, profiles, bids, contracts, open, calls, ret, events, ledger>>
store == <<slots, profiles, bids, contracts>>

NoRecord ==
  [contractId |-> 0, status |-> "", clearingPrice |-> 0, deadlineAt |-> 0,
   slotId |-> 0, slotExecutiveId |-> "", winningBidId |-> 0,
   winningOwnerId |-> "", winningEscrowStatus |-> ""]

\* the locals of a transaction
Tx ==
  [op |-> "", id |-> 0, user |-> "", amount |-> 0, tier |-> "", now |-> 0,
   hasProfile |-> FALSE, reserve |-> 0, slotBids |-> <<>>, record |-> NoRecord,
   waiting |-> FALSE, pending |-> "", due |-> <<>>]

NoRet ==
  [op |-> "", id |-> 0, status |-> "", contractId |-> 0, winningBidId |-> 0,
   clearingPrice |-> 0, platformFee |-> 0, netAmount |-> 0,
   slotBids |-> <<>>, reserve |-> 0]

Threw(op, id, message) == [NoRet EXCEPT !.op = op, !.id = id, !.status = message]

GatewayCall(kind, referenceId, user, amount, fee, ok) ==
  [kind |-> kind, referenceId |-> referenceId, user |-> user,
   amount |-> amount, fee |-> fee, ok |-> ok]

\* the x-idempotency-key header: `${referenceId}:lock`, `:refund`, `:release`
IdempotencyKey(call) == <<call.referenceId, call.kind>>

\* the gateway has answered a call with this key before
Seen(call, earlier) == \E c \in earlier : IdempotencyKey(c) = IdempotencyKey(call)

\* the gateway after the calls `issued`: post() throws unless the response is
\* ok, and the gateway answers a call whose x-idempotency-key it has seen with
\* success without carrying it out again
Processed(issued) ==
  ledger \cup
    {issued[i] : i \in {j \in DOMAIN issued :
                          /\ issued[j].ok
                          /\ ~Seen(issued[j], ledger)
                          /\ ~Seen(issued[j], {issued[k] : k \in 1..(j - 1)})}}

\* what a step does outside the store: its gateway calls and its notifier calls
Effects(issued, emitted) ==
  /\ calls' = issued
  /\ events' = emitted
  /\ ledger' = Processed(issued)

\* realtimePublisher.broadcastBidCreated(createdBid)
BidCreated(createdBid) == [type |-> "bidCreated", payload |-> createdBid]

\* realtimePublisher.broadcastAuctionClosed({slotId, status, contractId?, ...})
AuctionClosed(slotId, status, contractId, winningBidId, clearingPrice) ==
  [type |-> "auctionClosed",
   payload |-> [slotId |-> slotId, status |-> status, contractId |-> contractId,
                winningBidId |-> winningBidId, clearingPrice |-> clearingPrice]]

Begin(tx) == open' = open (+) SetToBag({tx})
End(tx) == open' = open (-) SetToBag({tx})
IsOpen(tx) == BagIn(tx, open)

Init ==
  /\ now = 0
  /\ slots = <<>>
  /\ profiles = [u \in {} |-> 0]
  /\ bids = <<>>
  /\ contracts = <<>>
  /\ open = EmptyBag
  /\ calls = <<>>
  /\ events = <<>>
  /\ ledger = {}
  /\ ret = NoRet

\* ------------------------------------------------------------------- clock
\* the instants at which a time comparison of the engine changes its value
Instants ==
  {slots[s].auctionEndsAt : s \in DOMAIN slots}
  \cup UNION {{contracts[c].deadlineAt, contracts[c].deadlineAt + 1} : c \in DOMAIN contracts}

Advance ==
  /\ \E t \in Instants :
       /\ t > now /\ t <= MaxNow
       /\ \A u \in Instants : u > now => t <= u
       /\ now' = t
  /\ Effects(<<>>, <<>>)
  /\ ret' = NoRet
  /\ UNCHANGED <<store, open>>

\* ------------------------------------------------------ createExecutiveSlot
\* creation without the test of the profile's active slot
HasNoActiveSlot(executiveUserId) == FALSE

\* the profile has an active slot
HasActiveSlot(executiveUserId) ==
  /\ executiveUserId \in DOMAIN profiles
  /\ profiles[executiveUserId].activeSlotId # 0

\* validation, the read of the user and the read of the profile
CreateRead(executiveUserId, tier, reservePrice) ==
  /\ Effects(<<>>, <<>>)
  /\ UNCHANGED <<now, store>>
  /\ IF ~requirePositiveCents(reservePrice)
       THEN /\ ret' = Threw("createExecutiveSlot", 0, "reservePrice must be a positive integer in cents")
            /\ UNCHANGED open
     ELSE IF \/ executiveUserId \notin DOMAIN users
             \/ users[executiveUserId].type # "EXECUTIVE"
             \/ ~users[executiveUserId].verified
       THEN /\ ret' = Threw("createExecutiveSlot", 0, "Only verified executives can create slots")
            /\ UNCHANGED open
     ELSE IF HasActiveSlot(executiveUserId)
       THEN /\ ret' = Threw("createExecutiveSlot", 0, "Executive already has one active slot")
            /\ UNCHANGED open
     ELSE /\ ret' = NoRet
          /\ Begin([Tx EXCEPT !.op = "createExecutiveSlot",
                              !.user = executiveUserId, !.tier = tier,
                              !.reserve = reservePrice, !.now = now,
                              !.hasProfile = executiveUserId \in DOMAIN profiles])

\* the insert into slots, the insert or update of the profile row, the commit
CreateWrite(tx) ==
  LET id == Len(slots) + 1
      createdSlot == [executiveId |-> tx.user, tier |-> tx.tier, status |-> "OPEN",
                      auctionEndsAt |-> tx.now + ONE_DAY]
      row == [activeSlotId |-> id, reservePrice |-> tx.reserve]
  IN /\ IsOpen(tx) /\ tx.op = "createExecutiveSlot"
     /\ Len(slots) < MaxSlots
     /\ Effects(<<>>, <<>>)
     /\ End(tx)
     /\ UNCHANGED <<now, bids, contracts>>
     /\ IF ~tx.hasProfile /\ tx.user \in DOMAIN profiles
          THEN \* primary key of executive_profiles: the insert fails, rollback
               /\ ret' = Threw("createExecutiveSlot", 0, "duplicate key")
               /\ UNCHANGED <<slots, profiles>>
          ELSE /\ slots' = Append(slots, createdSlot)
               /\ profiles' = [u \in DOMAIN profiles \cup {tx.user} |->
                                 IF u = tx.user THEN row ELSE profiles[u]]
               /\ ret' = [NoRet EXCEPT !.op = "createExecutiveSlot", !.id = id,
                                       !.status = "OPEN"]

\* ---------------------------------------------------------------- placeBid
\* placeBid without the test of the bidder against the slot's executive
PlaceReadOnOwnSlot(slotId, ownerUserId, amount) ==
  /\ Effects(<<>>, <<>>)
  /\ UNCHANGED <<now, store>>
  /\ IF ~requirePositiveCents(amount)
       THEN /\ ret' = Threw("placeBid", slotId, "amount must be a positive integer in cents")
            /\ UNCHANGED open
     ELSE IF \/ ownerUserId \notin DOMAIN users
             \/ users[ownerUserId].type # "OWNER"
             \/ ~users[ownerUserId].verified
       THEN /\ ret' = Threw("placeBid", slotId, "Only verified owners can place bids")
            /\ UNCHANGED open
     ELSE IF slotId \notin DOMAIN slots \/ slots[slotId].status # "OPEN"
       THEN /\ ret' = Threw("placeBid", slotId, "Slot is not open for bidding")
            /\ UNCHANGED open
     ELSE IF slots[slotId].auctionEndsAt <= now
       THEN /\ ret' = Threw("placeBid", slotId, "Auction already ended")
            /\ UNCHANGED open
     ELSE /\ ret' = NoRet
          /\ Begin([Tx EXCEPT !.op = "placeBid", !.id = slotId,
                              !.user = ownerUserId, !.amount = amount, !.now = now])

\* validation, the read of the user, the read of the slot, the checks
PlaceRead(slotId, ownerUserId, amount) ==
  /\ Effects(<<>>, <<>>)
  /\ UNCHANGED <<now, store>>
  /\ IF ~requirePositiveCents(amount)
       THEN /\ ret' = Threw("placeBid", slotId, "amount must be a positive integer in cents")
            /\ UNCHANGED open
     ELSE IF \/ ownerUserId \notin DOMAIN users
             \/ users[ownerUserId].type # "OWNER"
             \/ ~users[ownerUserId].verified
       THEN /\ ret' = Threw("placeBid", slotId, "Only verified owners can place bids")
            /\ UNCHANGED open
     ELSE IF slotId \notin DOMAIN slots \/ slots[slotId].status # "OPEN"
       THEN /\ ret' = Threw("placeBid", slotId, "Slot is not open for bidding")
            /\ UNCHANGED open
     ELSE IF slots[slotId].executiveId = ownerUserId
       THEN /\ ret' = Threw("placeBid", slotId, "Executive cannot bid on own slot")
            /\ UNCHANGED open
     ELSE IF slots[slotId].auctionEndsAt <= now
       THEN /\ ret' = Threw("placeBid", slotId, "Auction already ended")
            /\ UNCHANGED open
     ELSE /\ ret' = NoRet
          /\ Begin([Tx EXCEPT !.op = "placeBid", !.id = slotId,
                              !.user = ownerUserId, !.amount = amount, !.now = now])

\* the steps of placeBid after its checks at which it can fail: the gateway
\* call, the insert (lost connection, crash), the call of the notifier and the
\* commit
PlaceFailures == {"", "lockFunds", "insert", "broadcast", "commit"}

\* what a method throws when a call of realtimePublisher throws: the call is
\* inside the transaction callback and in no try block
NotifierFailed == "notifier failed"

\* the locks of the gateway whose bid row was never committed
Lost == {c \in ledger : c.kind = "lockFunds" /\ c.referenceId < 0}

InsertedDespiteLock(failure) == failure # "insert"

\* the insert of line 185 returned a row: lockFunds was awaited and did not throw
Inserted(failure) == failure \notin {"lockFunds", "insert"}

\* randomUUID(), lockFunds, the insert into bids, broadcastBidCreated, the
\* commit.  A UUID that ends in no row is counted downwards from -1.
PlaceWrite(tx, failure) ==
  LET bidId == IF failure = "" THEN Len(bids) + 1 ELSE -(Cardinality(Lost) + 1)
      createdBid == [id |-> bidId, slotId |-> tx.id, ownerId |-> tx.user,
                     amount |-> tx.amount, escrowStatus |-> "LOCKED",
                     createdAt |-> tx.now]
  IN /\ IsOpen(tx) /\ tx.op = "placeBid"
     /\ Len(bids) < MaxBids
     /\ failure \in {"insert", "broadcast", "commit"} => Cardinality(Lost) < MaxLost
     /\ Effects(<<GatewayCall("lockFunds", bidId, tx.user, tx.amount, 0,
                              failure # "lockFunds")>>,
                IF Inserted(failure) /\ failure # "broadcast"
                  THEN <<BidCreated(createdBid)>> ELSE <<>>)
     /\ End(tx)
     /\ UNCHANGED <<now, slots, profiles, contracts>>
     /\ IF failure = ""
          THEN /\ bids' = Append(bids, createdBid)
               /\ ret' = [NoRet EXCEPT !.op = "placeBid", !.id = bidId, !.status = "LOCKED"]
          ELSE /\ ret' = Threw("placeBid", tx.id,
                               CASE failure = "lockFunds" -> "Native Pix gateway call failed"
                                 [] failure = "insert" -> "insert failed"
                                 [] failure = "broadcast" -> NotifierFailed
                                 [] failure = "commit" -> "commit failed")
               /\ UNCHANGED bids

\* ------------------------------------------------------------- closeAuction
\* the order with the latest of equal amounts first
PrecedesLatestFirst(a, b) ==
  \/ a.amount > b.amount
  \/ a.amount = b.amount /\ a.createdAt > b.createdAt
  \/ a.amount = b.amount /\ a.createdAt = b.createdAt /\ a.id < b.id

\* orderBy(desc(bids.amount), asc(bids.createdAt), asc(bids.id))
Precedes(a, b) ==
  \/ a.amount > b.amount
  \/ a.amount = b.amount /\ a.createdAt < b.createdAt
  \/ a.amount = b.amount /\ a.createdAt = b.createdAt /\ a.id < b.id

RECURSIVE OrderBy(_)
OrderBy(rows) ==
  IF rows = {} THEN <<>>
  ELSE LET first == CHOOSE a \in rows : \A b \in rows \ {a} : Precedes(a, b)
       IN <<first>> \o OrderBy(rows \ {first})

\* select ... from bids where slotId = ... order by ...
SlotBids(slotId) == OrderBy({bids[b] : b \in {i \in DOMAIN bids : bids[i].slotId = slotId}})

\* every bid of the slot taken as valid, whatever the reserve price
EveryBid(slotBids, reservePrice) == slotBids

\* slotBids.filter((bid) => bid.amount >= profile.reservePrice)
ValidBids(slotBids, reservePrice) ==
  SelectSeq(slotBids, LAMBDA bid : bid.amount >= reservePrice)

\* a first-price auction: the winner pays the own bid
ClearingPriceOwnBid(validBids) == validBids[1].amount

\* validBids.length === 1 ? winner.amount : validBids[1].amount
ClearingPrice(validBids) ==
  IF Len(validBids) = 1 THEN validBids[1].amount ELSE validBids[2].amount

\* a read followed by an update in place of the conditional update: no waiting
SlotNeverLocked(slotId) == FALSE

\* a transaction that has updated the slot row and has not ended holds its lock
SlotLocked(slotId) ==
  \E tx \in BagToSet(open) : tx.op = "closeAuction" /\ tx.id = slotId /\ ~tx.waiting

\* the WHERE clause without eq(slots.status, "OPEN")
ClosableWhenDue(slotId, at) ==
  /\ slotId \in DOMAIN slots
  /\ slots[slotId].auctionEndsAt <= at

\* the WHERE clause without lte(slots.auctionEndsAt, now)
ClosableWhenOpen(slotId, at) ==
  /\ slotId \in DOMAIN slots
  /\ slots[slotId].status = "OPEN"

\* the WHERE clause of the update that takes the slot: OPEN and due
Closable(slotId, at) ==
  /\ slotId \in DOMAIN slots
  /\ slots[slotId].status = "OPEN"
  /\ slots[slotId].auctionEndsAt <= at

\* the transaction once it has set the slot to AUCTION_CLOSED (uncommitted) and
\* read the profile and the bids
Loaded(slotId, at) ==
  [Tx EXCEPT !.op = "closeAuction", !.id = slotId, !.now = at,
             !.pending = "AUCTION_CLOSED",
             !.user = slots[slotId].executiveId,
             !.tier = slots[slotId].tier,
             !.reserve = profiles[slots[slotId].executiveId].reservePrice,
             !.slotBids = SlotBids(slotId)]

\* update slots set status = AUCTION_CLOSED where id, OPEN, due; when another
\* open transaction has updated the row, the update waits for it; otherwise
\* the reads of the profile and of the bids follow
CloseLoad(slotId) ==
  /\ Effects(<<>>, <<>>)
  /\ UNCHANGED <<now, store>>
  /\ IF ~Closable(slotId, now)
       THEN /\ ret' = Threw("closeAuction", slotId, "Slot cannot be closed yet or is already closed")
            /\ UNCHANGED open
     ELSE IF SlotLocked(slotId)
       THEN /\ ret' = NoRet
            /\ Begin([Tx EXCEPT !.op = "closeAuction", !.id = slotId, !.now = now,
                                !.waiting = TRUE])
     ELSE IF slots[slotId].executiveId \notin DOMAIN profiles
       THEN /\ ret' = Threw("closeAuction", slotId, "Executive profile not found")
            /\ UNCHANGED open
     ELSE /\ ret' = NoRet
          /\ Begin(Loaded(slotId, now))

\* the transaction waited for has ended: the update re-evaluates its WHERE
\* clause on the committed row
CloseResume(tx) ==
  /\ IsOpen(tx) /\ tx.op = "closeAuction" /\ tx.waiting
  /\ ~SlotLocked(tx.id)
  /\ Effects(<<>>, <<>>)
  /\ UNCHANGED <<now, store>>
  /\ IF ~Closable(tx.id, tx.now)
       THEN /\ ret' = Threw("closeAuction", tx.id, "Slot cannot be closed yet or is already closed")
            /\ End(tx)
     ELSE IF slots[tx.id].executiveId \notin DOMAIN profiles
       THEN /\ ret' = Threw("closeAuction", tx.id, "Executive profile not found")
            /\ End(tx)
     ELSE /\ ret' = NoRet
          /\ open' = (open (-) SetToBag({tx})) (+) SetToBag({Loaded(tx.id, tx.now)})

\* the bids the loop of the VOID branch refunds: those loaded LOCKED
Locked(slotBids) == SelectSeq(slotBids, LAMBDA bid : bid.escrowStatus = "LOCKED")

\* the loop without its bid.id === winner.id test
LosersAndWinner(slotBids, winnerId) == Locked(slotBids)

\* the bids the loop after the choice of the winner refunds: it skips the
\* winner and the bids not loaded LOCKED
Losers(slotBids, winnerId) ==
  SelectSeq(slotBids, LAMBDA bid : ~(bid.id = winnerId \/ bid.escrowStatus # "LOCKED"))

\* refundToOwner({referenceId: bid.id, ownerId: bid.ownerId, amount: bid.amount})
\* for each of the bids, in their order
RefundCalls(refunded) ==
  [i \in 1..Len(refunded) |->
     GatewayCall("refundToOwner", refunded[i].id, refunded[i].ownerId,
                 refunded[i].amount, 0, TRUE)]

\* the whole locked amount goes back to the winner
ExcessCallsWholeBid(winner, clearingPrice) ==
  <<GatewayCall("refundToOwner", winner.id, winner.ownerId, winner.amount, 0, TRUE)>>

\* the refund of winner.amount - clearingPrice, if positive
ExcessCalls(winner, clearingPrice) ==
  IF winner.amount - clearingPrice > 0
    THEN <<GatewayCall("refundToOwner", winner.id, winner.ownerId,
                       winner.amount - clearingPrice, 0, TRUE)>>
    ELSE <<>>

\* the calls up to the one that fails (failAt = 0: none fails)
Issued(planned, failAt) ==
  IF failAt = 0 THEN planned
  ELSE [i \in 1..failAt |-> IF i = failAt THEN [planned[i] EXCEPT !.ok = FALSE] ELSE planned[i]]

\* the update without eq(bids.escrowStatus, "LOCKED")
MarkBidsInAnyStatus(ids, to) ==
  [b \in DOMAIN bids |->
     IF b \in ids THEN [bids[b] EXCEPT !.escrowStatus = to] ELSE bids[b]]

\* update bids set escrowStatus = to where id = ... and escrowStatus = LOCKED,
\* for each id of ids
MarkBids(ids, to) ==
  [b \in DOMAIN bids |->
     IF b \in ids /\ bids[b].escrowStatus = "LOCKED"
       THEN [bids[b] EXCEPT !.escrowStatus = to] ELSE bids[b]]

\* the update of the profile left out
KeepActiveSlot(executiveId) == profiles

\* update executive_profiles set activeSlotId = null where userId = ...
ClearActiveSlot(executiveId) ==
  [u \in DOMAIN profiles |->
     IF u = executiveId THEN [profiles[u] EXCEPT !.activeSlotId = 0] ELSE profiles[u]]

\* update contracts set status = to where id = ...
SetContractStatus(contractId, to) == [contracts EXCEPT ![contractId].status = to]

\* the update that leaves a slot the transaction has marked AUCTION_CLOSED
SetSlotStatusUnlessClosed(rows, slotId, to) ==
  IF rows[slotId].status = "AUCTION_CLOSED" THEN rows ELSE [rows EXCEPT ![slotId].status = to]

\* update slots set status = to where id = ... on top of the rows `rows`
SetSlotStatus(rows, slotId, to) == [rows EXCEPT ![slotId].status = to]

\* the refunds and their updates, then VOID or the contract; commit, or
\* rollback when a gateway call or the insert of the contract fails
CloseFinish(tx, failAt) ==
  LET slotId == tx.id
      slotBids == tx.slotBids
      validBids == ValidBids(slotBids, tx.reserve)
      winner == validBids[1]
      clearingPrice == ClearingPrice(validBids)
      toRefund == IF validBids = <<>> THEN Locked(slotBids) ELSE Losers(slotBids, winner.id)
      planned == IF validBids = <<>> THEN RefundCalls(toRefund)
                 ELSE RefundCalls(toRefund) \o ExcessCalls(winner, clearingPrice)
      refunded == {toRefund[i].id : i \in 1..Len(toRefund)}
      contractId == Len(contracts) + 1
      createdContract ==
        [slotId |-> slotId, winningBidId |-> winner.id, clearingPrice |-> clearingPrice,
         status |-> "ACTIVE", startedAt |-> tx.now,
         deadlineAt |-> deadlineFromTier(tx.now, tx.tier)]
      locked == SetSlotStatus(slots, slotId, tx.pending)
  IN /\ IsOpen(tx) /\ tx.op = "closeAuction" /\ ~tx.waiting
     /\ failAt \in 0..Len(planned)
     /\ Effects(Issued(planned, failAt),
                IF failAt # 0 THEN <<>>
                ELSE IF validBids = <<>> THEN <<AuctionClosed(slotId, "VOID", 0, 0, 0)>>
                ELSE IF \E c \in DOMAIN contracts :
                          contracts[c].slotId = slotId \/ contracts[c].winningBidId = winner.id
                  THEN <<>>
                ELSE <<AuctionClosed(slotId, "IN_PROGRESS", contractId, winner.id,
                                     clearingPrice)>>)
     /\ End(tx)
     /\ UNCHANGED now
     /\ IF failAt # 0
          THEN /\ ret' = Threw("closeAuction", slotId, "Native Pix gateway call failed")
               /\ UNCHANGED store
        ELSE IF validBids = <<>>
          THEN /\ bids' = MarkBids(refunded, "REFUNDED")
               /\ slots' = SetSlotStatus(locked, slotId, "VOID")
               /\ profiles' = ClearActiveSlot(tx.user)
               /\ ret' = [NoRet EXCEPT !.op = "closeAuction", !.id = slotId, !.status = "VOID",
                                       !.slotBids = slotBids, !.reserve = tx.reserve]
               /\ UNCHANGED contracts
        ELSE IF \E c \in DOMAIN contracts :
                   contracts[c].slotId = slotId \/ contracts[c].winningBidId = winner.id
          THEN \* unique(slot_id), unique(winning_bid_id): the insert fails
               /\ ret' = Threw("closeAuction", slotId, "duplicate key")
               /\ UNCHANGED store
        ELSE /\ bids' = MarkBids(refunded, "REFUNDED")
             /\ contracts' = Append(contracts, createdContract)
             /\ slots' = SetSlotStatus(locked, slotId, "IN_PROGRESS")
             /\ ret' = [NoRet EXCEPT !.op = "closeAuction", !.id = slotId,
                                     !.status = "IN_PROGRESS", !.contractId = contractId,
                                     !.winningBidId = winner.id,
                                     !.clearingPrice = clearingPrice,
                                     !.slotBids = slotBids, !.reserve = tx.reserve]
             /\ UNCHANGED profiles

\* broadcastAuctionClosed throws: every gateway call has been made, the
\* exception leaves the transaction callback and the transaction rolls back
CloseUnannounced(tx) ==
  LET slotBids == tx.slotBids
      validBids == ValidBids(slotBids, tx.reserve)
      winner == validBids[1]
      toRefund == IF validBids = <<>> THEN Locked(slotBids) ELSE Losers(slotBids, winner.id)
      planned == IF validBids = <<>> THEN RefundCalls(toRefund)
                 ELSE RefundCalls(toRefund) \o ExcessCalls(winner, ClearingPrice(validBids))
  IN /\ IsOpen(tx) /\ tx.op = "closeAuction" /\ ~tx.waiting
     /\ validBids # <<>> =>
          ~\E c \in DOMAIN contracts :
              contracts[c].slotId = tx.id \/ contracts[c].winningBidId = winner.id
     /\ Effects(planned, <<>>)
     /\ End(tx)
     /\ ret' = Threw("closeAuction", tx.id, NotifierFailed)
     /\ UNCHANGED <<now, store>>

\* --------------------------------------------------------- completeContract
\* contracts inner join slots inner join bids where contracts.id = ...
Record(contractId) ==
  IF contractId \notin DOMAIN contracts THEN NoRecord
  ELSE LET c == contracts[contractId]
       IN [contractId |-> contractId, status |-> c.status,
           clearingPrice |-> c.clearingPrice, deadlineAt |-> c.deadlineAt,
           slotId |-> c.slotId, slotExecutiveId |-> slots[c.slotId].executiveId,
           winningBidId |-> c.winningBidId,
           winningOwnerId |-> bids[c.winningBidId].ownerId,
           winningEscrowStatus |-> bids[c.winningBidId].escrowStatus]

\* completion without the test of the deadline
DeadlineNeverExceeded(at, deadlineAt) == FALSE

\* now.getTime() > record.deadlineAt.getTime()
DeadlineExceeded(at, deadlineAt) == at > deadlineAt

\* completion without the test that the caller is the slot's executive
CompleteReadByAnyone(contractId, executiveUserId) ==
  LET record == Record(contractId)
  IN /\ Effects(<<>>, <<>>)
     /\ UNCHANGED <<now, store>>
     /\ IF record = NoRecord \/ record.status # "ACTIVE"
          THEN /\ ret' = Threw("completeContract", contractId, "Contract is not active")
               /\ UNCHANGED open
        ELSE IF DeadlineExceeded(now, record.deadlineAt)
          THEN /\ ret' = Threw("completeContract", contractId, "Deadline exceeded, contract must be breached")
               /\ UNCHANGED open
        ELSE IF record.winningEscrowStatus # "LOCKED"
          THEN /\ ret' = Threw("completeContract", contractId, "Winning escrow is not available for release")
               /\ UNCHANGED open
        ELSE /\ ret' = NoRet
             /\ Begin([Tx EXCEPT !.op = "completeContract", !.id = contractId,
                                 !.user = executiveUserId, !.record = record])

\* the read of the record and the checks
CompleteRead(contractId, executiveUserId) ==
  LET record == Record(contractId)
  IN /\ Effects(<<>>, <<>>)
     /\ UNCHANGED <<now, store>>
     /\ IF record = NoRecord \/ record.status # "ACTIVE"
          THEN /\ ret' = Threw("completeContract", contractId, "Contract is not active")
               /\ UNCHANGED open
        ELSE IF record.slotExecutiveId # executiveUserId
          THEN /\ ret' = Threw("completeContract", contractId, "Only contract executive can mark completion")
               /\ UNCHANGED open
        ELSE IF DeadlineExceeded(now, record.deadlineAt)
          THEN /\ ret' = Threw("completeContract", contractId, "Deadline exceeded, contract must be breached")
               /\ UNCHANGED open
        ELSE IF record.winningEscrowStatus # "LOCKED"
          THEN /\ ret' = Threw("completeContract", contractId, "Winning escrow is not available for release")
               /\ UNCHANGED open
        ELSE /\ ret' = NoRet
             /\ Begin([Tx EXCEPT !.op = "completeContract", !.id = contractId,
                                 !.user = executiveUserId, !.record = record])

\* releaseToExecutive, the four updates, the commit
CompleteWrite(tx, ok) ==
  LET record == tx.record
      platformFee == PlatformFee(record.clearingPrice)
      netAmount == record.clearingPrice - platformFee
  IN /\ IsOpen(tx) /\ tx.op = "completeContract"
     /\ Effects(<<GatewayCall("releaseToExecutive", record.winningBidId,
                              record.slotExecutiveId, netAmount, platformFee, ok)>>,
                <<>>)
     /\ End(tx)
     /\ UNCHANGED now
     /\ IF ~ok
          THEN /\ ret' = Threw("completeContract", record.contractId, "Native Pix gateway call failed")
               /\ UNCHANGED store
          ELSE /\ bids' = MarkBids({record.winningBidId}, "RELEASED")
               /\ contracts' = SetContractStatus(record.contractId, "COMPLETED")
               /\ slots' = SetSlotStatus(slots, record.slotId, "COMPLETED")
               /\ profiles' = ClearActiveSlot(record.slotExecutiveId)
               /\ ret' = [NoRet EXCEPT !.op = "completeContract", !.id = record.contractId,
                                       !.contractId = record.contractId,
                                       !.status = "COMPLETED",
                                       !.clearingPrice = record.clearingPrice,
                                       !.platformFee = platformFee,
                                       !.netAmount = netAmount]

\* ------------------------------------------------------- autoBreachContract
\* auto-breach without the test of the deadline
AlwaysDue(at, deadlineAt) == FALSE

\* record.deadlineAt.getTime() > now.getTime()
NotYetDue(at, deadlineAt) == deadlineAt > at

\* the read of the record and the two early returns
BreachRead(contractId) ==
  LET record == Record(contractId)
  IN /\ Effects(<<>>, <<>>)
     /\ UNCHANGED <<now, store>>
     /\ IF record = NoRecord \/ record.status # "ACTIVE"
          THEN /\ ret' = Threw("autoBreachContract", contractId, "null")
               /\ UNCHANGED open
        ELSE IF NotYetDue(now, record.deadlineAt)
          THEN /\ ret' = Threw("autoBreachContract", contractId, "null")
               /\ UNCHANGED open
        ELSE /\ ret' = NoRet
             /\ Begin([Tx EXCEPT !.op = "autoBreachContract", !.id = contractId,
                                 !.now = now, !.record = record])

\* the refund of the clearing price if the bid was read LOCKED, the updates,
\* the commit
BreachWrite(tx, ok) ==
  LET record == tx.record
      planned == IF record.winningEscrowStatus = "LOCKED"
                   THEN <<GatewayCall("refundToOwner", record.winningBidId,
                                      record.winningOwnerId, record.clearingPrice, 0, ok)>>
                   ELSE <<>>
  IN /\ IsOpen(tx) /\ tx.op = "autoBreachContract"
     /\ ~ok => planned # <<>>
     /\ Effects(planned, <<>>)
     /\ End(tx)
     /\ UNCHANGED now
     /\ IF ~ok
          THEN /\ ret' = Threw("autoBreachContract", record.contractId, "Native Pix gateway call failed")
               /\ UNCHANGED store
          ELSE /\ bids' = IF planned # <<>> THEN MarkBids({record.winningBidId}, "REFUNDED")
                          ELSE bids
               /\ contracts' = SetContractStatus(record.contractId, "BREACH")
               /\ slots' = SetSlotStatus(slots, record.slotId, "BREACH")
               /\ profiles' = ClearActiveSlot(record.slotExecutiveId)
               /\ ret' = [NoRet EXCEPT !.op = "autoBreachContract", !.id = record.contractId,
                                       !.contractId = record.contractId,
                                       !.status = "BREACH"]

\* --------------------------------- closeDueAuctions, breachOverdueContracts
\* the rows of a select without ORDER BY come in any order
Orders(rows) ==
  {order \in [1..Cardinality(rows) -> rows] :
     \A i, j \in DOMAIN order : order[i] = order[j] => i = j}

\* the select without lte(slots.auctionEndsAt, now)
OpenSlots(at) == {s \in DOMAIN slots : slots[s].status = "OPEN"}

\* select id from slots where status = OPEN and auctionEndsAt <= now
DueSlots(at) ==
  {s \in DOMAIN slots : slots[s].status = "OPEN" /\ slots[s].auctionEndsAt <= at}

\* the select with the wrong status
OverdueCompleted(at) ==
  {c \in DOMAIN contracts : contracts[c].status = "COMPLETED" /\ contracts[c].deadlineAt <= at}

\* select id from contracts where status = ACTIVE and deadlineAt <= now
DueContracts(at) ==
  {c \in DOMAIN contracts : contracts[c].status = "ACTIVE" /\ contracts[c].deadlineAt <= at}

Sweeps == {"closeDueAuctions", "breachOverdueContracts"}

\* the method a sweep calls for each item
Inner(op) == IF op = "closeDueAuctions" THEN "closeAuction" ELSE "autoBreachContract"

\* A sweep holds in `due` the items from the one it handed last to the inner
\* method (once `waiting`) on; it awaits that call while its transaction is open.
Awaits(sw) ==
  /\ sw.waiting
  /\ \E tx \in BagToSet(open) : tx.op = Inner(sw.op) /\ tx.id = Head(sw.due)

\* the items the loop has not reached
Remaining(sw) == IF sw.waiting THEN Tail(sw.due) ELSE sw.due

\* the select of the sweep; a sweep of the same kind is not running
SweepStart(op) ==
  /\ ~\E sw \in BagToSet(open) : sw.op = op
  /\ Effects(<<>>, <<>>)
  /\ UNCHANGED <<now, store>>
  /\ ret' = NoRet
  /\ \E order \in Orders(IF op = "closeDueAuctions" THEN DueSlots(now) ELSE DueContracts(now)) :
       Begin([Tx EXCEPT !.op = op, !.now = now, !.due = order])

\* the sweep with its loop moved on to the next item, and the transaction of
\* the inner call if it has one
Handed(sw, inner) ==
  (open (-) SetToBag({sw}))
    (+) SetToBag({[sw EXCEPT !.due = Remaining(sw), !.waiting = TRUE]})
    (+) inner

\* try { await this.closeAuction(slot.id) } catch { continue }: the first step
\* of closeAuction (CloseLoad) on the next item
SweepClose(sw) ==
  LET slotId == Head(Remaining(sw))
  IN /\ IsOpen(sw) /\ sw.op = "closeDueAuctions"
     /\ ~Awaits(sw) /\ Remaining(sw) # <<>>
     /\ Effects(<<>>, <<>>)
     /\ UNCHANGED <<now, store>>
     /\ IF ~Closable(slotId, now)
          THEN /\ ret' = Threw("closeAuction", slotId, "Slot cannot be closed yet or is already closed")
               /\ open' = Handed(sw, EmptyBag)
        ELSE IF SlotLocked(slotId)
          THEN /\ ret' = NoRet
               /\ open' = Handed(sw, SetToBag({[Tx EXCEPT !.op = "closeAuction", !.id = slotId,
                                                           !.now = now, !.waiting = TRUE]}))
        ELSE IF slots[slotId].executiveId \notin DOMAIN profiles
          THEN /\ ret' = Threw("closeAuction", slotId, "Executive profile not found")
               /\ open' = Handed(sw, EmptyBag)
        ELSE /\ ret' = NoRet
             /\ open' = Handed(sw, SetToBag({Loaded(slotId, now)}))

\* try { await this.autoBreachContract(contract.id) } catch { continue }: the
\* first step of autoBreachContract (BreachRead) on the next item
SweepBreach(sw) ==
  LET contractId == Head(Remaining(sw))
      record == Record(contractId)
  IN /\ IsOpen(sw) /\ sw.op = "breachOverdueContracts"
     /\ ~Awaits(sw) /\ Remaining(sw) # <<>>
     /\ Effects(<<>>, <<>>)
     /\ UNCHANGED <<now, store>>
     /\ IF record = NoRecord \/ record.status # "ACTIVE"
          THEN /\ ret' = Threw("autoBreachContract", contractId, "null")
               /\ open' = Handed(sw, EmptyBag)
        ELSE IF NotYetDue(now, record.deadlineAt)
          THEN /\ ret' = Threw("autoBreachContract", contractId, "null")
               /\ open' = Handed(sw, EmptyBag)
        ELSE /\ ret' = NoRet
             /\ open' = Handed(sw, SetToBag({[Tx EXCEPT !.op = "autoBreachContract",
                                                        !.id = contractId, !.now = now,
                                                        !.record = record]}))

\* the loop is over: the sweep resolves
SweepReturn(sw) ==
  /\ IsOpen(sw) /\ sw.op \in Sweeps
  /\ ~Awaits(sw) /\ Remaining(sw) = <<>>
  /\ Effects(<<>>, <<>>)
  /\ UNCHANGED <<now, store>>
  /\ End(sw)
  /\ ret' = [NoRet EXCEPT !.op = sw.op, !.status = "done"]

\* ----------------------------------------------------------- specifications
\* a caller invokes a method: its first step, which may reject the call
Call ==
  \/ \E u \in Executives, t \in Tiers, r \in ReservePrices : CreateRead(u, t, r)
  \/ \E s \in SlotIds, u \in Owners, a \in Amounts : PlaceRead(s, u, a)
  \/ \E s \in SlotIds : CloseLoad(s)
  \/ \E c \in ContractIds, u \in Executives : CompleteRead(c, u)
  \/ \E c \in ContractIds : BreachRead(c)

\* an open transaction does its gateway calls and writes, and ends
CreateCommit == \E tx \in BagToSet(open) : CreateWrite(tx)
PlaceCommit == \E tx \in BagToSet(open), failure \in {"", "lockFunds"} : PlaceWrite(tx, failure)
CloseLock == \E tx \in BagToSet(open) : CloseResume(tx)
CloseCommit == \E tx \in BagToSet(open), failAt \in 0..MaxBids : CloseFinish(tx, failAt)
CompleteCommit == \E tx \in BagToSet(open), ok \in BOOLEAN : CompleteWrite(tx, ok)
BreachCommit == \E tx \in BagToSet(open), ok \in BOOLEAN : BreachWrite(tx, ok)

\* The engine under concurrent callers.  A call that is rejected in its first
\* step changes nothing but ret and is left out here; SpecCalls has them.
Accepted == Call /\ ret' = NoRet /\ BagCardinality(open') <= MaxOpen

Next ==
  \/ Advance
  \/ Accepted
  \/ CreateCommit
  \/ PlaceCommit
  \/ CloseLock
  \/ CloseCommit
  \/ CompleteCommit
  \/ BreachCommit

Spec == Init /\ [][Next]_vars

\* The engine under one caller at a time, with every call, rejected or not.
InSequence == Call /\ open = EmptyBag

NextCalls ==
  \/ Advance
  \/ InSequence
  \/ CreateCommit
  \/ PlaceCommit
  \/ CloseCommit
  \/ CompleteCommit
  \/ BreachCommit

SpecCalls == Init /\ [][NextCalls]_vars

\* The clearing of one auction: every table of up to MaxAuctionBids bids that
\* bidders can have placed (at the slot's creation or half a day later) on a
\* slot created at 0, at the instant the auction ends.
MaxAuctionBids == 4

Placed ==
  UNION {[1..n -> [amount : Amounts, createdAt : {0, 1}]] : n \in 0..MaxAuctionBids}

InitAuction ==
  /\ now = ONE_DAY
  /\ slots = <<[executiveId |-> "e1", tier |-> "7_DAYS", status |-> "OPEN",
                auctionEndsAt |-> ONE_DAY]>>
  /\ \E r \in ReservePrices :
       profiles = [u \in {"e1"} |-> [activeSlotId |-> 1, reservePrice |-> r]]
  /\ \E placed \in Placed :
       bids = [i \in 1..Len(placed) |->
                 [id |-> i, slotId |-> 1, ownerId |-> "o1", amount |-> placed[i].amount,
                  escrowStatus |-> "LOCKED", createdAt |-> placed[i].createdAt]]
  /\ contracts = <<>>
  /\ open = EmptyBag
  /\ calls = <<>>
  /\ events = <<>>
  /\ ledger = {GatewayCall("lockFunds", bids[b].id, bids[b].ownerId, bids[b].amount, 0, TRUE) :
               b \in DOMAIN bids}
  /\ ret = NoRet

AuctionClose == (\E s \in SlotIds : CloseLoad(s)) /\ open = EmptyBag
AuctionCommit == \E tx \in BagToSet(open), failAt \in 0..MaxAuctionBids : CloseFinish(tx, failAt)

NextAuction ==
  \/ AuctionClose
  \/ AuctionCommit

SpecAuction == InitAuction /\ [][NextAuction]_vars

\* The life of one contract: a slot of e1 (7_DAYS, reserve 1) created at 0 got
\* one bid and was closed at the end of its auction, which made the bid's
\* amount the clearing price.  Callers are concurrent, calls name any principal
\* and any contract id, and a rejected call shows in ret.
MaxPrice == 120

ClearingPrices == 1..MaxPrice \cup {100000}

Principals == {"e1", "o1", "o2", "x1"}

InitContract ==
  /\ now = ONE_DAY
  /\ slots = <<[executiveId |-> "e1", tier |-> "7_DAYS", status |-> "IN_PROGRESS",
                auctionEndsAt |-> ONE_DAY]>>
  /\ profiles = [u \in {"e1"} |-> [activeSlotId |-> 1, reservePrice |-> 1]]
  /\ \E price \in ClearingPrices :
       /\ bids = <<[id |-> 1, slotId |-> 1, ownerId |-> "o1", amount |-> price,
                    escrowStatus |-> "LOCKED", createdAt |-> 0]>>
       /\ contracts = <<[slotId |-> 1, winningBidId |-> 1, clearingPrice |-> price,
                         status |-> "ACTIVE", startedAt |-> ONE_DAY,
                         deadlineAt |-> deadlineFromTier(ONE_DAY, "7_DAYS")]>>
  /\ open = EmptyBag
  /\ calls = <<>>
  /\ events = <<>>
  /\ ledger = {GatewayCall("lockFunds", bids[b].id, bids[b].ownerId, bids[b].amount, 0, TRUE) :
               b \in DOMAIN bids}
  /\ ret = NoRet

ContractCall ==
  \/ \E c \in ContractIds, u \in Principals : CompleteRead(c, u)
  \/ \E c \in ContractIds : BreachRead(c)

ContractCalled == ContractCall /\ BagCardinality(open') <= MaxOpen

NextContract ==
  \/ Advance
  \/ ContractCalled
  \/ CompleteCommit
  \/ BreachCommit

SpecContract == InitContract /\ [][NextContract]_vars

\* The bidding on one slot: a slot created at 0 by e1, or by d1 before the
\* change of d1's type, with its auction open until ONE_DAY.  Callers are
\* concurrent, bids come from any principal with any number as amount (given in
\* half cents, so that an odd count is a fraction of a cent), closes come at
\* any time, and a rejected call shows in ret.
Bidders == Principals \cup {"d1"}

HalfCents == {-2, 0, 101} \cup {2 * a : a \in {b \in Amounts : \E r \in ReservePrices : b >= r}}

\* the entry of placeBid: requirePositiveCents(input.amount, "amount") rejects
\* what Number.isInteger rejects, the rest goes on with the amount in cents
placeBid(slotId, ownerUserId, halfCents) ==
  IF halfCents % 2 # 0
    THEN /\ ret' = Threw("placeBid", slotId, "amount must be a positive integer in cents")
         /\ Effects(<<>>, <<>>)
         /\ UNCHANGED <<now, store, open>>
    ELSE PlaceRead(slotId, ownerUserId, halfCents \div 2)

InitBids ==
  /\ now = 0
  /\ \E executiveId \in {"e1", "d1"}, r \in ReservePrices :
       /\ slots = <<[executiveId |-> executiveId, tier |-> "7_DAYS", status |-> "OPEN",
                     auctionEndsAt |-> ONE_DAY]>>
       /\ profiles = [u \in {executiveId} |-> [activeSlotId |-> 1, reservePrice |-> r]]
  /\ bids = <<>>
  /\ contracts = <<>>
  /\ open = EmptyBag
  /\ calls = <<>>
  /\ events = <<>>
  /\ ledger = {}
  /\ ret = NoRet

BidCall ==
  \/ \E s \in {1, MaxSlots}, u \in Bidders, a \in HalfCents : placeBid(s, u, a)
  \/ \E s \in {1, MaxSlots} : CloseLoad(s)

BidCalled == BidCall /\ BagCardinality(open') <= MaxOpen

\* a placeBid that fails after the gateway has locked the funds
PlaceCrash == \E tx \in BagToSet(open), failure \in {"insert", "commit"} : PlaceWrite(tx, failure)

NextBids ==
  \/ Advance
  \/ BidCalled
  \/ PlaceCommit
  \/ PlaceCrash
  \/ CloseLock
  \/ CloseCommit

SpecBids == InitBids /\ [][NextBids]_vars

\* ------------------------------------------------- one caller who retries
\* a caller who awaits the outcome of a call before making the next one
BidAwaited == BidCall /\ open = EmptyBag

NextRetry ==
  \/ Advance
  \/ BidAwaited
  \/ PlaceCommit
  \/ PlaceCrash
  \/ CloseCommit

SpecRetry == InitBids /\ [][NextRetry]_vars

\* ------------------------------------------------------------- the sweeps
\* Two slots created at 0, one by e1 and one by d1 (before the change of d1's
\* type), each with no bid, a bid below the reserve price or a bid above it.
\* The cron ticks start the sweeps, the executives may complete their
\* contracts, gateway calls may fail.
SweepBids == {<<>>} \cup {<<a>> : a \in {b \in Amounts : b <= 70}}

InitSweeps ==
  /\ now = 0
  /\ slots = [s \in 1..2 |->
                [executiveId |-> IF s = 1 THEN "e1" ELSE "d1", tier |-> "7_DAYS",
                 status |-> "OPEN", auctionEndsAt |-> ONE_DAY]]
  /\ \E r \in ReservePrices :
       profiles = [u \in {"e1", "d1"} |->
                     [activeSlotId |-> IF u = "e1" THEN 1 ELSE 2, reservePrice |-> r]]
  /\ \E first \in SweepBids, second \in SweepBids :
       LET placed == [i \in 1..Len(first) |-> [slotId |-> 1, amount |-> first[i]]]
                     \o [i \in 1..Len(second) |-> [slotId |-> 2, amount |-> second[i]]]
       IN bids = [i \in 1..Len(placed) |->
                    [id |-> i, slotId |-> placed[i].slotId, ownerId |-> "o1",
                     amount |-> placed[i].amount, escrowStatus |-> "LOCKED",
                     createdAt |-> 0]]
  /\ contracts = <<>>
  /\ open = EmptyBag
  /\ calls = <<>>
  /\ events = <<>>
  /\ ledger = {GatewayCall("lockFunds", bids[b].id, bids[b].ownerId, bids[b].amount, 0, TRUE) :
               b \in DOMAIN bids}
  /\ ret = NoRet

\* cron.schedule("* * * * *", ...) of each sweep
Tick == \E op \in Sweeps : SweepStart(op)
CloseNext == \E sw \in BagToSet(open) : SweepClose(sw)
BreachNext == \E sw \in BagToSet(open) : SweepBreach(sw)
SweepEnds(op) == \E sw \in BagToSet(open) : sw.op = op /\ SweepReturn(sw)
SweepEnd == \E op \in Sweeps : SweepEnds(op)

\* an executive marks a contract completed; one such call at a time
Completion ==
  /\ ~\E tx \in BagToSet(open) : tx.op = "completeContract"
  /\ \E c \in ContractIds, u \in {"e1", "d1"} : CompleteRead(c, u)
  /\ ret' = NoRet

NextSweeps ==
  \/ Advance
  \/ Tick
  \/ CloseNext
  \/ BreachNext
  \/ SweepEnd
  \/ CloseCommit
  \/ BreachCommit
  \/ Completion
  \/ CompleteCommit

SpecSweeps == InitSweeps /\ [][NextSweeps]_vars

\* The sweeps left to themselves: the cron fires every minute, awaited calls
\* return, the clock goes on past MaxNow to the last deadline a slot closed by
\* then can get, the gateway answers every call with success and the notifier
\* does not throw.  Executives may or may not complete their contracts.
Elapse ==
  /\ \E t \in Instants :
       /\ t > now /\ t <= deadlineFromTier(MaxNow, "7_DAYS") + 1
       /\ \A u \in Instants : u > now => t <= u
       /\ now' = t
  /\ Effects(<<>>, <<>>)
  /\ ret' = NoRet
  /\ UNCHANGED <<store, open>>

CloseSucceeds == \E tx \in BagToSet(open) : CloseFinish(tx, 0)
BreachSucceeds == \E tx \in BagToSet(open) : BreachWrite(tx, TRUE)
CompleteSucceeds == \E tx \in BagToSet(open) : CompleteWrite(tx, TRUE)

NextLive ==
  \/ Elapse
  \/ Tick
  \/ CloseNext
  \/ BreachNext
  \/ SweepEnd
  \/ CloseSucceeds
  \/ BreachSucceeds
  \/ Completion
  \/ CompleteSucceeds

SpecLive ==
  /\ InitSweeps
  /\ [][NextLive]_vars
  /\ WF_vars(Elapse)
  /\ \A op \in Sweeps : WF_vars(SweepStart(op))
  /\ \A op \in Sweeps : WF_vars(SweepEnds(op))
  /\ WF_vars(CloseNext) /\ WF_vars(BreachNext)
  /\ WF_vars(CloseSucceeds) /\ WF_vars(BreachSucceeds)

\* --------------------------------------------------- a notifier that throws
\* One caller at a time bids on the slot and closes it while the notifier
\* (any RealtimePublisher the service was constructed with) may throw.
PlaceUnannounced == \E tx \in BagToSet(open) : PlaceWrite(tx, "broadcast")
CloseNotifierThrows == \E tx \in BagToSet(open) : CloseUnannounced(tx)

NextNotifier ==
  \/ Advance
  \/ BidAwaited
  \/ PlaceCommit
  \/ PlaceUnannounced
  \/ CloseCommit
  \/ CloseNotifierThrows

SpecNotifier == InitBids /\ [][NextNotifier]_vars

\* ------------------------------------------------------ the issuing of slots
\* Slots are created by any principal with any number as reserve price (in
\* half cents) and closed without bids, which frees the issuer for the next
\* slot.  Callers are concurrent and a rejected call shows in ret.
Issuers == Principals \cup {"e2"}

ReserveHalfCents == {-2, 0, 121} \cup {2 * r : r \in ReservePrices}

\* the entry of createExecutiveSlot: requirePositiveCents(input.reservePrice,
\* "reservePrice") before the transaction
createExecutiveSlot(executiveUserId, tier, halfCents) ==
  IF halfCents % 2 # 0
    THEN /\ ret' = Threw("createExecutiveSlot", 0, "reservePrice must be a positive integer in cents")
         /\ Effects(<<>>, <<>>)
         /\ UNCHANGED <<now, store, open>>
    ELSE CreateRead(executiveUserId, tier, halfCents \div 2)

SlotCall ==
  \/ \E u \in Issuers, t \in Tiers, r \in ReserveHalfCents : createExecutiveSlot(u, t, r)
  \/ \E s \in SlotIds : CloseLoad(s)

SlotCalled == SlotCall /\ BagCardinality(open') <= MaxOpen

NextSlots ==
  \/ Advance
  \/ SlotCalled
  \/ CreateCommit
  \/ CloseLock
  \/ CloseCommit

SpecSlots == Init /\ [][NextSlots]_vars

\* ------------------------------------------------------------------- claims
Committed(r) == r.op = "closeAuction" /\ r.status \in {"VOID", "IN_PROGRESS"}

BidsOf(slotId) == {bids[b] : b \in {i \in DOMAIN bids : bids[i].slotId = slotId}}

ReserveOf(slotId) == profiles[slots[slotId].executiveId].reservePrice

\* amount descending, then createdAt ascending, then id ascending
Ranks(a, b) ==
  \/ a.amount > b.amount
  \/ a.amount = b.amount /\ a.createdAt < b.createdAt
  \/ a.amount = b.amount /\ a.createdAt = b.createdAt /\ a.id < b.id

Top(rows) == CHOOSE a \in rows : \A b \in rows \ {a} : Ranks(a, b)

\* the calls of the last step that name the bid
CallsFor(bidId) == {i \in DOMAIN calls : calls[i].referenceId = bidId}

RefundedOnce(bid) ==
  /\ Cardinality(CallsFor(bid.id)) = 1
  /\ \A i \in CallsFor(bid.id) :
       /\ calls[i].kind = "refundToOwner"
       /\ calls[i].amount = bid.amount
       /\ calls[i].user = bid.ownerId
       /\ calls[i].ok
  /\ bids[bid.id].escrowStatus = "REFUNDED"

\* C1: in every reachable state each issuer has at most one slot with status
\* OPEN.
OneOpenSlotPerIssuer ==
  \A e \in Executives :
    Cardinality({s \in DOMAIN slots :
                   slots[s].executiveId = e /\ slots[s].status = "OPEN"}) <= 1

\* C2: a close that commits on a slot with a bid of at least the reserve makes
\* the first such bid in the order (amount descending, createdAt ascending, id
\* ascending) the winner, and the clearing price is the amount of the second
\* such bid if there are two, else the winner's amount; bids below the reserve
\* neither win nor set the price; with no such bid the slot goes VOID.
VickreyWinnerAndPrice ==
  Committed(ret) =>
    LET valid == {b \in BidsOf(ret.id) : b.amount >= ReserveOf(ret.id)}
        winner == Top(valid)
        second == Top(valid \ {winner})
    IN IF valid = {} THEN ret.status = "VOID"
       ELSE /\ ret.status = "IN_PROGRESS"
            /\ ret.winningBidId = winner.id
            /\ contracts[ret.contractId].winningBidId = winner.id
            /\ ret.clearingPrice =
                 IF Cardinality(valid) >= 2 THEN second.amount ELSE winner.amount
            /\ contracts[ret.contractId].clearingPrice = ret.clearingPrice

\* bids [100, 70, 70, 50] with reserve 60: the 100 bid wins at price 70
VickreyExample ==
  /\ Committed(ret)
  /\ ReserveOf(ret.id) = 60
  /\ Len(bids) = 4
  /\ bids[1].amount = 100 /\ bids[2].amount = 70
  /\ bids[3].amount = 70 /\ bids[4].amount = 50
  /\ ret.winningBidId = 1
  /\ ret.clearingPrice = 70

\* C3: a closeAuction call on a slot that a close has already taken out of OPEN
\* fails with the "not closable" error, issues no gateway call and changes no
\* row; the close of a due OPEN slot whose gateway calls succeed commits.
NotClosable == "Slot cannot be closed yet or is already closed"

SecondCloseFails ==
  [][/\ \A s \in DOMAIN slots :
          (slots[s].status # "OPEN" /\ ret'.op = "closeAuction" /\ ret'.id = s)
            => (ret'.status = NotClosable /\ calls' = <<>> /\ UNCHANGED store)
     /\ (ret'.op = "closeAuction" /\ open # EmptyBag
           /\ \A i \in DOMAIN calls' : calls'[i].ok)
          => (Committed(ret') /\ slots'[ret'.id].status = ret'.status)]_vars

ClosedTwice ==
  /\ ret.op = "closeAuction" /\ ret.status = NotClosable
  /\ ret.id \in DOMAIN slots
  /\ slots[ret.id].status \in {"VOID", "IN_PROGRESS"}

\* C4: of the closers of a slot at most one commits: a close commits only on a
\* slot whose committed status is OPEN, it refunds and marks only bids that are
\* LOCKED, and there is at most one contract per slot and per winning bid.
OneCloserCommits ==
  /\ [](\A c, d \in DOMAIN contracts :
          (contracts[c].slotId = contracts[d].slotId
             \/ contracts[c].winningBidId = contracts[d].winningBidId) => c = d)
  /\ [][Committed(ret') =>
          /\ slots[ret'.id].status = "OPEN"
          /\ \A i \in DOMAIN calls' : bids[calls'[i].referenceId].escrowStatus = "LOCKED"]_vars

\* a closer that waited for the closer holding the slot finds it closed
CloserLost ==
  /\ ret.op = "closeAuction" /\ ret.status = NotClosable
  /\ slots[ret.id].status = "IN_PROGRESS"
  /\ Cardinality({c \in DOMAIN contracts : contracts[c].slotId = ret.id}) = 1
  /\ \E b \in DOMAIN bids : bids[b].slotId = ret.id /\ bids[b].escrowStatus = "REFUNDED"

\* C5: a contract's status changes only from ACTIVE, to COMPLETED or BREACH, and
\* never again afterwards.
ContractStatusChangesOnce ==
  [][\A c \in DOMAIN contracts :
       contracts'[c].status # contracts[c].status =>
         /\ contracts[c].status = "ACTIVE"
         /\ contracts'[c].status \in {"COMPLETED", "BREACH"}]_vars

\* C6: a bid is inserted LOCKED, its escrowStatus changes at most once, from
\* LOCKED to RELEASED or REFUNDED, and no other column of it ever changes.
BidsImmutableButEscrow ==
  [][/\ \A b \in DOMAIN bids :
          /\ b \in DOMAIN bids'
          /\ [bids'[b] EXCEPT !.escrowStatus = bids[b].escrowStatus] = bids[b]
          /\ bids'[b].escrowStatus # bids[b].escrowStatus =>
               /\ bids[b].escrowStatus = "LOCKED"
               /\ bids'[b].escrowStatus \in {"RELEASED", "REFUNDED"}
     /\ \A b \in DOMAIN bids' \ DOMAIN bids : bids'[b].escrowStatus = "LOCKED"]_vars

\* a breach has committed on a contract whose winning bid a completion released
ReleasedBidSurvivesBreach ==
  \E c \in DOMAIN contracts :
    /\ ret.op = "autoBreachContract" /\ ret.status = "BREACH" /\ ret.id = c
    /\ bids[contracts[c].winningBidId].escrowStatus = "RELEASED"

\* C7: every change of a slot's status goes forward along OPEN -> AUCTION_CLOSED
\* -> VOID or OPEN -> AUCTION_CLOSED -> IN_PROGRESS -> COMPLETED or BREACH.
After(status) ==
  CASE status = "OPEN" -> {"AUCTION_CLOSED", "VOID", "IN_PROGRESS", "COMPLETED", "BREACH"}
    [] status = "AUCTION_CLOSED" -> {"VOID", "IN_PROGRESS", "COMPLETED", "BREACH"}
    [] status = "IN_PROGRESS" -> {"COMPLETED", "BREACH"}
    [] OTHER -> {}

SlotStatusFollowsPaths ==
  [][\A s \in DOMAIN slots :
       slots'[s].status # slots[s].status => slots'[s].status \in After(slots[s].status)]_vars

\* C8: a close that commits on a slot none of whose bids reaches the reserve
\* leaves the slot VOID, has refunded every bid it loaded LOCKED exactly once,
\* in full, and marked it REFUNDED, has made no other gateway call, leaves the
\* slot without contract and the issuer's activeSlotId null.
LockedLoaded(r) == {r.slotBids[i] : i \in {j \in DOMAIN r.slotBids : r.slotBids[j].escrowStatus = "LOCKED"}}

ExcessRefundExact ==
  (Committed(ret) /\ ret.status = "IN_PROGRESS") =>
    LET winner == bids[ret.winningBidId]
        excess == winner.amount - ret.clearingPrice
    IN /\ excess >= 0
       /\ excess = 0 => CallsFor(winner.id) = {}
       /\ excess > 0 =>
            /\ Cardinality(CallsFor(winner.id)) = 1
            /\ \A i \in CallsFor(winner.id) :
                 calls[i] = GatewayCall("refundToOwner", winner.id, winner.ownerId,
                                        excess, 0, TRUE)

ExcessOfThirty ==
  /\ Committed(ret) /\ ret.status = "IN_PROGRESS"
  /\ bids[ret.winningBidId].amount = 100
  /\ ret.clearingPrice = 70
  /\ CallsFor(ret.winningBidId) # {}

CompletionReleasesAndCloses ==
  (ret.op = "completeContract" /\ ret.status = "COMPLETED") =>
    LET contract == contracts[ret.id]
    IN /\ bids[contract.winningBidId].escrowStatus = "RELEASED"
       /\ contract.status = "COMPLETED"
       /\ slots[contract.slotId].status = "COMPLETED"
       /\ profiles[slots[contract.slotId].executiveId].activeSlotId = 0
       /\ ~HasActiveSlot(slots[contract.slotId].executiveId)

\* C13: a completeContract call made while the contract is ACTIVE and the clock
\* is past its deadlineAt is never accepted; it throws an error other than
\* "Contract is not active", issues no gateway call and changes no row (so the
\* winning bid's escrowStatus, the contract, the slot and the profile stay).
NotActive == "Contract is not active"

\* a step that is a call of the method: no transaction ends in it
IsCall(op) == ret'.op = op /\ BagCardinality(open') = BagCardinality(open)

CompletionAfterDeadlineRejected ==
  [][\A c \in DOMAIN contracts :
       (contracts[c].status = "ACTIVE" /\ now > contracts[c].deadlineAt) =>
         /\ \A tx \in BagToSet(open') :
              (tx.op = "completeContract" /\ tx.id = c) => CopiesIn(tx, open') <= CopiesIn(tx, open)
         /\ (IsCall("completeContract") /\ ret'.id = c) =>
              /\ ret'.status \in {"Deadline exceeded, contract must be breached",
                                  "Only contract executive can mark completion"}
              /\ ret'.status # NotActive
              /\ calls' = <<>>
              /\ UNCHANGED store]_vars

LateCompletionRejected ==
  /\ ret.op = "completeContract"
  /\ ret.status = "Deadline exceeded, contract must be breached"
  /\ contracts[ret.id].status = "ACTIVE"
  /\ now > contracts[ret.id].deadlineAt
  /\ bids[contracts[ret.id].winningBidId].escrowStatus = "LOCKED"

\* C14: a completeContract call is accepted only for a contract that exists and
\* is ACTIVE, from the issuer of its slot, with the winning bid LOCKED; a
\* rejected call issues no gateway call and changes no row; it throws "Contract
\* is not active" when the contract is missing or not ACTIVE and "Only contract
\* executive can mark completion" when only the caller is wrong; and a contract
\* becomes COMPLETED only in the commit of a completion called by the issuer.
Started(tx) == CopiesIn(tx, open') > CopiesIn(tx, open)

Ended(tx) == CopiesIn(tx, open') < CopiesIn(tx, open)

IssuerOf(contractId) == slots[contracts[contractId].slotId].executiveId

CompletionChecksItsPreconditions ==
  [][/\ \A tx \in BagToSet(open') :
          (tx.op = "completeContract" /\ Started(tx)) =>
            /\ tx.id \in DOMAIN contracts
            /\ contracts[tx.id].status = "ACTIVE"
            /\ tx.user = IssuerOf(tx.id)
            /\ bids[contracts[tx.id].winningBidId].escrowStatus = "LOCKED"
     /\ IsCall("completeContract") =>
          /\ calls' = <<>>
          /\ UNCHANGED store
          /\ (ret'.id \notin DOMAIN contracts \/ contracts[ret'.id].status # "ACTIVE")
               <=> ret'.status = NotActive
          /\ (/\ ret'.id \in DOMAIN contracts
              /\ contracts[ret'.id].status = "ACTIVE"
              /\ now <= contracts[ret'.id].deadlineAt
              /\ bids[contracts[ret'.id].winningBidId].escrowStatus = "LOCKED")
               => ret'.status = "Only contract executive can mark completion"
     /\ \A c \in DOMAIN contracts :
          (contracts[c].status # "COMPLETED" /\ contracts'[c].status = "COMPLETED") =>
            \E tx \in BagToSet(open) :
              /\ tx.op = "completeContract" /\ tx.id = c /\ Ended(tx)
              /\ tx.user = IssuerOf(c)]_vars

StrangerRejected ==
  /\ ret.op = "completeContract"
  /\ ret.status = "Only contract executive can mark completion"
  /\ contracts[ret.id].status = "ACTIVE"
  /\ now <= contracts[ret.id].deadlineAt
  /\ calls = <<>>

\* C15: an autoBreachContract that commits has refunded the clearing price to
\* the winning bidder in one gateway call and leaves the winning bid REFUNDED,
\* contract and slot BREACH and the issuer's activeSlotId null; and an
\* autoBreachContract call on a contract that is BREACH returns null, issues no
\* gateway call and changes no row.
BreachRefundsAndCloses ==
  /\ []((ret.op = "autoBreachContract" /\ ret.status = "BREACH") =>
          LET contract == contracts[ret.id]
              bid == bids[contract.winningBidId]
          IN /\ calls = <<GatewayCall("refundToOwner", bid.id, bid.ownerId,
                                      contract.clearingPrice, 0, TRUE)>>
             /\ bid.escrowStatus = "REFUNDED"
             /\ contract.status = "BREACH"
             /\ slots[contract.slotId].status = "BREACH"
             /\ profiles[IssuerOf(ret.id)].activeSlotId = 0)
  /\ [][(/\ IsCall("autoBreachContract")
         /\ ret'.id \in DOMAIN contracts
         /\ contracts[ret'.id].status = "BREACH")
          => (ret'.status = "null" /\ calls' = <<>> /\ UNCHANGED store)]_vars

NoSelfBid ==
  /\ [](\A b \in DOMAIN bids : bids[b].ownerId # slots[bids[b].slotId].executiveId)
  /\ [][\A tx \in BagToSet(open') :
          (tx.op = "placeBid" /\ Started(tx)) => tx.user # slots[tx.id].executiveId]_vars

\* the issuer's own bid on the open slot, rejected by the test of line 168
SelfBidRejected ==
  /\ ret.op = "placeBid" /\ ret.status = "Executive cannot bid on own slot"
  /\ slots[ret.id].status = "OPEN"
  /\ now < slots[ret.id].auctionEndsAt
  /\ bids = <<>>

\* C18: a placeBid call is accepted only with a positive amount, from a
\* verified OWNER, on an OPEN slot of another principal whose auctionEndsAt is
\* ahead of the clock; a rejected call issues no gateway call and changes no
\* row; and lockFunds is called and a bid row inserted only in the step that
\* ends an accepted placeBid.
BidChecksItsPreconditions ==
  [][/\ \A tx \in BagToSet(open') :
          (tx.op = "placeBid" /\ Started(tx)) =>
            /\ tx.amount > 0
            /\ tx.user \in DOMAIN users
            /\ users[tx.user].type = "OWNER" /\ users[tx.user].verified
            /\ tx.id \in DOMAIN slots
            /\ slots[tx.id].status = "OPEN"
            /\ slots[tx.id].executiveId # tx.user
            /\ slots[tx.id].auctionEndsAt > now
     /\ IsCall("placeBid") => (calls' = <<>> /\ UNCHANGED store)
     /\ ((\E i \in DOMAIN calls' : calls'[i].kind = "lockFunds") \/ Len(bids') > Len(bids))
          => \E tx \in BagToSet(open) : tx.op = "placeBid" /\ Ended(tx)]_vars

LateBidRejected ==
  /\ ret.op = "placeBid" /\ ret.status = "Auction already ended"
  /\ slots[ret.id].status = "OPEN"
  /\ slots[ret.id].auctionEndsAt <= now
  /\ calls = <<>>

\* C19: a step whose lockFunds call fails returns the gateway's error to the
\* caller of placeBid, adds no bid row and emits no event; the step that adds
\* a bid row issues the successful lockFunds call of that row; and every
\* stored bid has a successful lockFunds call under its id, owner and amount
\* at the gateway.
LockFailureAborts ==
  /\ [](\A b \in DOMAIN bids :
          GatewayCall("lockFunds", bids[b].id, bids[b].ownerId, bids[b].amount, 0, TRUE)
            \in ledger)
  /\ [][/\ \A i \in DOMAIN calls' :
            (calls'[i].kind = "lockFunds" /\ ~calls'[i].ok) =>
              /\ ret'.op = "placeBid"
              /\ ret'.status = "Native Pix gateway call failed"
              /\ bids' = bids
              /\ events' = <<>>
              /\ ledger' = ledger
        /\ Len(bids') > Len(bids) =>
              LET created == bids'[Len(bids')]
              IN calls' = <<GatewayCall("lockFunds", created.id, created.ownerId,
                                        created.amount, 0, TRUE)>>]_vars

\* an accepted bid whose lockFunds call failed: the caller has the error, the
\* table has no row, the notifier got nothing
LockFailed ==
  /\ ret.op = "placeBid" /\ ret.status = "Native Pix gateway call failed"
  /\ Len(calls) = 1 /\ calls[1].kind = "lockFunds" /\ ~calls[1].ok
  /\ slots[ret.id].status = "OPEN"
  /\ bids = <<>>
  /\ events = <<>>
  /\ ledger = {}

\* C20: with one call in flight at a time, when a placeBid of a bidder and an
\* amount commits its row after an earlier placeBid of the same bidder and
\* amount lost its row between the successful lockFunds call and the commit,
\* its lockFunds call carries the idempotency key of the lost one, so the
\* gateway holds one lock for the bid.
RetryLocksOnce ==
  [][\A tx \in BagToSet(open) :
       (tx.op = "placeBid" /\ Ended(tx) /\ Len(bids') > Len(bids)) =>
         \A lost \in Lost :
           (lost.user = tx.user /\ lost.amount = tx.amount) =>
             /\ IdempotencyKey(calls'[1]) = IdempotencyKey(lost)
             /\ Cardinality({c \in ledger' : /\ c.kind = "lockFunds"
                                              /\ c.user = tx.user
                                              /\ c.amount = tx.amount}) = 1]_vars

\* C21: a createExecutiveSlot call goes on to its writes only with a positive
\* reserve price, from a verified EXECUTIVE whose profile, if any, has no
\* active slot when the call reads it; the step of a rejected call and the
\* step of a call that fails at its writes change no row and make no gateway
\* call; and a slot is inserted only by the step that returns it.
SlotCreationChecksItsPreconditions ==
  [][/\ \A tx \in BagToSet(open') :
          (tx.op = "createExecutiveSlot" /\ Started(tx)) =>
            /\ tx.reserve > 0
            /\ tx.user \in DOMAIN users
            /\ users[tx.user].type = "EXECUTIVE" /\ users[tx.user].verified
            /\ tx.user \in DOMAIN profiles => profiles[tx.user].activeSlotId = 0
     /\ (ret'.op = "createExecutiveSlot" /\ ret'.status # "OPEN") =>
            /\ UNCHANGED store
            /\ calls' = <<>>
     /\ Len(slots') > Len(slots) =>
            /\ ret'.op = "createExecutiveSlot" /\ ret'.status = "OPEN"
            /\ ret'.id = Len(slots')]_vars

\* the issuer of an OPEN slot asks for a second one and gets the conflict
SecondSlotRejected ==
  /\ ret.op = "createExecutiveSlot"
  /\ ret.status = "Executive already has one active slot"
  /\ Len(slots) = 1 /\ slots[1].status = "OPEN"
  /\ profiles[slots[1].executiveId].activeSlotId = 1

\* C22: a placeBid whose lockFunds call succeeded and whose insert and commit
\* did not fail returns its bid and has it stored, and a closeAuction whose
\* gateway calls all succeeded and whose insert of the contract did not fail
\* returns VOID or IN_PROGRESS and has the slot in that status, whatever the
\* notifier does; no method ends with the notifier's error.
NotifierNeverGates ==
  [][\A tx \in BagToSet(open) :
       Ended(tx) =>
         /\ ret'.status # NotifierFailed
         /\ (/\ tx.op = "placeBid"
             /\ calls'[1].ok
             /\ ret'.status \notin {"insert failed", "commit failed"}) =>
               /\ ret'.status = "LOCKED"
               /\ Len(bids') = Len(bids) + 1
               /\ bids'[ret'.id].ownerId = tx.user /\ bids'[ret'.id].amount = tx.amount
         /\ (/\ tx.op = "closeAuction"
             /\ \A i \in DOMAIN calls' : calls'[i].ok
             /\ ret'.status # "duplicate key") =>
               /\ ret'.status \in {"VOID", "IN_PROGRESS"}
               /\ slots'[tx.id].status = ret'.status]_vars

\* the items of a sequence
Items(order) == {order[i] : i \in DOMAIN order}

\* C23: a sweep starts with each OPEN slot whose auctionEndsAt has passed (each
\* ACTIVE contract whose deadlineAt has passed) once in its list; it leaves an
\* item only by calling closeAuction (autoBreachContract) on it; whatever that
\* call does, the sweep goes on to the next item; and it ends only when no item
\* remains, resolving without an error.
SweepsReachEveryItem ==
  [][/\ \A sw \in BagToSet(open') :
          (sw.op \in Sweeps /\ Started(sw) /\ ~sw.waiting) =>
            /\ Items(sw.due) =
                 IF sw.op = "closeDueAuctions"
                   THEN {s \in DOMAIN slots :
                           slots[s].status = "OPEN" /\ now >= slots[s].auctionEndsAt}
                   ELSE {c \in DOMAIN contracts :
                           contracts[c].status = "ACTIVE" /\ now >= contracts[c].deadlineAt}
            /\ Len(sw.due) = Cardinality(Items(sw.due))
     /\ \A sw \in BagToSet(open) :
          (sw.op \in Sweeps /\ Ended(sw)) =>
            \/ /\ Remaining(sw) = <<>>
               /\ ret' = [NoRet EXCEPT !.op = sw.op, !.status = "done"]
               /\ ~\E other \in BagToSet(open') : other.op = sw.op
            \/ /\ Remaining(sw) # <<>>
               /\ BagIn([sw EXCEPT !.due = Remaining(sw), !.waiting = TRUE], open')
               /\ \/ ret'.op = Inner(sw.op) /\ ret'.id = Head(Remaining(sw))
                  \/ \E tx \in BagToSet(open') :
                       tx.op = Inner(sw.op) /\ tx.id = Head(Remaining(sw)) /\ Started(tx)
     /\ ret'.op \in Sweeps => ret'.status = "done"
     /\ (ret'.op \in {"closeAuction", "autoBreachContract"} /\ ret'.status # "") =>
          \A sw \in BagToSet(open) : (sw.op \in Sweeps /\ Awaits(sw)) => BagIn(sw, open')]_vars

\* closeDueAuctions found both slots due; its closeAuction of the first one
\* failed at the gateway, which left the slot OPEN, and the sweep has gone on
\* to close the second
SweepWentOn ==
  \E sw \in BagToSet(open) :
    /\ sw.op = "closeDueAuctions" /\ sw.waiting /\ Len(sw.due) = 1
    /\ ret.op = "closeAuction" /\ ret.id = sw.due[1]
    /\ ret.status \in {"VOID", "IN_PROGRESS"}
    /\ \E s \in DOMAIN slots :
         /\ s # sw.due[1]
         /\ slots[s].status = "OPEN" /\ slots[s].auctionEndsAt <= sw.now

\* C24: in a step of closeAuction, every bid whose whole amount the gateway
\* refunded with success is REFUNDED after the step, also when a later refund
\* of the step failed; and a step with a failed gateway call ends with the
\* gateway's error.
StuckRefundBlocksNoOther ==
  [][\A tx \in BagToSet(open) :
       (tx.op = "closeAuction" /\ Ended(tx)) =>
         /\ \A i \in DOMAIN calls' :
              (/\ calls'[i].kind = "refundToOwner" /\ calls'[i].ok
               /\ calls'[i].amount = bids[calls'[i].referenceId].amount) =>
                 bids'[calls'[i].referenceId].escrowStatus = "REFUNDED"
         /\ (\E i \in DOMAIN calls' : ~calls'[i].ok) =>
              ret'.status = "Native Pix gateway call failed"]_vars

\* C25 as stated: the refund calls of one closeAuction, the excess refund of
\* the winner included, name bids in ranking order.
RefundCallsInRankingOrder ==
  [][\A tx \in BagToSet(open) :
       (tx.op = "closeAuction" /\ Ended(tx)) =>
         \A i, j \in DOMAIN calls' :
           i < j => Ranks(bids[calls'[i].referenceId], bids[calls'[j].referenceId])]_vars

\* the rows in ranking order
RECURSIVE Ranked(_)
Ranked(rows) ==
  IF rows = {} THEN <<>> ELSE <<Top(rows)>> \o Ranked(rows \ {Top(rows)})

\* the refund calls that the stored bids of a slot and its reserve price
\* determine: the full refunds in ranking order, then the winner's excess
RefundsDetermined(slotId) ==
  LET rows == BidsOf(slotId)
      valid == {b \in rows : b.amount >= ReserveOf(slotId)}
      winner == Top(valid)
      price == IF Cardinality(valid) >= 2 THEN Top(valid \ {winner}).amount ELSE winner.amount
      refunded == Ranked({b \in rows : /\ b.escrowStatus = "LOCKED"
                                       /\ valid # {} => b.id # winner.id})
      full == [i \in DOMAIN refunded |->
                 GatewayCall("refundToOwner", refunded[i].id, refunded[i].ownerId,
                             refunded[i].amount, 0, TRUE)]
  IN IF valid # {} /\ winner.amount > price
       THEN Append(full, GatewayCall("refundToOwner", winner.id, winner.ownerId,
                                     winner.amount - price, 0, TRUE))
       ELSE full

\* C25 amended: the calls of one closeAuction are the full refunds of the
\* LOCKED non-winning bids in ranking order (amount descending, createdAt
\* ascending, id ascending), followed by the excess refund of the winner if
\* there is one; the sequence, the winner and the clearing price are determined
\* by the stored bids and the reserve price alone, and a close that fails has
\* issued a prefix of that sequence.
RefundsRankedThenExcess ==
  [][\A tx \in BagToSet(open) :
       (tx.op = "closeAuction" /\ Ended(tx)) =>
         LET determined == RefundsDetermined(tx.id)
         IN /\ Len(calls') <= Len(determined)
            /\ \A i \in DOMAIN calls' : [calls'[i] EXCEPT !.ok = TRUE] = determined[i]
            /\ \A i \in DOMAIN calls' : ~calls'[i].ok => i = Len(calls')
            /\ Committed(ret') =>
                 /\ calls' = determined
                 /\ ret'.status = "IN_PROGRESS" =>
                      ret'.winningBidId =
                        Top({b \in BidsOf(tx.id) : b.amount >= ReserveOf(tx.id)}).id]_vars

\* bids [50, 70, 100, 70], the second 70 placed first, with reserve 60: the
\* refunds go to bids 4, 2 and 1 in this order, then the excess of 30 to the
\* winner, bid 3
RefundsOfFour ==
  /\ Committed(ret)
  /\ Len(bids) = 4
  /\ bids[1].amount = 50 /\ bids[2].amount = 70
  /\ bids[3].amount = 100 /\ bids[4].amount = 70
  /\ bids[2].createdAt > bids[4].createdAt
  /\ Len(calls) = 4
  /\ calls[1].referenceId = 4 /\ calls[2].referenceId = 2
  /\ calls[3].referenceId = 1 /\ calls[4].referenceId = 3

\* C26: with both sweeps fired again and again, the clock advancing and the
\* gateway answering with success, every OPEN slot leaves OPEN, every ACTIVE
\* contract becomes COMPLETED or BREACH, and every slot ends up VOID, COMPLETED
\* or BREACH for good, whether or not an executive completes a contract.
SweepsResolveEverySlot ==
  /\ \A s \in 1..2 : (slots[s].status = "OPEN") ~> (slots[s].status # "OPEN")
  /\ \A c \in 1..2 :
       (c \in DOMAIN contracts /\ contracts[c].status = "ACTIVE")
         ~> (c \in DOMAIN contracts /\ contracts[c].status \in {"COMPLETED", "BREACH"})
  /\ <>[](\A s \in 1..2 : slots[s].status \in {"VOID", "COMPLETED", "BREACH"})

\* both slots resolved by the sweeps alone: no contract was completed, one was
\* breached
ResolvedBySweeps ==
  /\ \A s \in DOMAIN slots : slots[s].status \in {"VOID", "BREACH"}
  /\ \E c \in DOMAIN contracts :
       /\ contracts[c].status = "BREACH"
       /\ bids[contracts[c].winningBidId].escrowStatus = "REFUNDED"
  /\ ~\E tx \in BagToSet(open) : tx.op = "completeContract"

\* C27: a closeAuction goes on to its refunds and writes, and commits, only on
\* a slot that exists, is OPEN and has auctionEndsAt <= now; a call on any
\* other slot ends with the "not closable" error; and a closeAuction that ends
\* with this error, at its call or after waiting for another closer, changes
\* no row, makes no gateway call and emits no event.
CloseOnlyWhenOpenAndDue ==
  [][/\ \A tx \in BagToSet(open') :
          (tx.op = "closeAuction" /\ Started(tx) /\ ~tx.waiting) =>
            /\ tx.id \in DOMAIN slots
            /\ slots[tx.id].status = "OPEN"
            /\ now >= slots[tx.id].auctionEndsAt
     /\ Committed(ret') =>
            /\ slots[ret'.id].status = "OPEN"
            /\ now >= slots[ret'.id].auctionEndsAt
     /\ (/\ IsCall("closeAuction")
         /\ \/ ret'.id \notin DOMAIN slots
            \/ slots[ret'.id].status # "OPEN"
            \/ now < slots[ret'.id].auctionEndsAt) =>
            ret'.status = NotClosable
     /\ (ret'.op = "closeAuction" /\ ret'.status = NotClosable) =>
            /\ UNCHANGED store
            /\ calls' = <<>>
            /\ events' = <<>>
            /\ ledger' = ledger]_vars

\* a close asked for before the end of the auction: the slot is still OPEN
EarlyCloseRejected ==
  /\ ret.op = "closeAuction" /\ ret.status = NotClosable
  /\ ret.id \in DOMAIN slots
  /\ slots[ret.id].status = "OPEN"
  /\ now < slots[ret.id].auctionEndsAt
  /\ calls = <<>> /\ events = <<>>

RECURSIVE Total(_)
Total(moved) ==
  IF moved = {} THEN 0
  ELSE LET c == CHOOSE x \in moved : TRUE IN c.amount + c.fee + Total(moved \ {c})

\* what the gateway has moved out of the escrow of a bid, by operation
Moved(bidId, kind) == Total({c \in ledger : c.referenceId = bidId /\ c.kind = kind})

\* C29: at a gateway that carries out one call per idempotency key, every
\* REFUNDED bid has been refunded its amount in total, and for every RELEASED
\* bid the refunded excess, the net amount and the platform fee add up to its
\* amount; so a winner whose excess was refunded at the close has, once the
\* contract is breached and the bid REFUNDED, got the clearing price back too.
MoneyConservedPerBid ==
  \A b \in DOMAIN bids :
    /\ bids[b].escrowStatus = "REFUNDED" =>
         Moved(bids[b].id, "refundToOwner") = bids[b].amount
    /\ bids[b].escrowStatus = "RELEASED" =>
         Moved(bids[b].id, "refundToOwner") + Moved(bids[b].id, "releaseToExecutive")
           = bids[b].amount

\* C30: for the winning bid of every contract, once the gateway has released
\* the clearing price to the issuer it has refunded the bidder nothing but the
\* excess of the close: no breach refund of the clearing price comes with a
\* release, however completeContract and autoBreachContract interleave.
NeverReleasedAndRefunded ==
  \A c \in DOMAIN contracts :
    LET winning == bids[contracts[c].winningBidId]
    IN Moved(winning.id, "releaseToExecutive") # 0 =>
         Moved(winning.id, "refundToOwner") = winning.amount - contracts[c].clearingPrice

\* C31: in every state, each LOCKED bid of a slot that is VOID, IN_PROGRESS,
\* COMPLETED or BREACH is the winning bid of an ACTIVE contract of that slot.
NoBidStranded ==
  \A b \in DOMAIN bids :
    (/\ bids[b].escrowStatus = "LOCKED"
     /\ slots[bids[b].slotId].status \in {"VOID", "IN_PROGRESS", "COMPLETED", "BREACH"}) =>
      \E c \in DOMAIN contracts :
        /\ contracts[c].status = "ACTIVE"
        /\ contracts[c].slotId = bids[b].slotId
        /\ contracts[c].winningBidId = bids[b].id

\* C32: in every state, a contract is ACTIVE exactly when its slot is
\* IN_PROGRESS and its winning bid LOCKED, COMPLETED exactly when its slot is
\* COMPLETED and its winning bid RELEASED, BREACH exactly when its slot is
\* BREACH and its winning bid REFUNDED; a slot in OPEN or VOID has no contract.
ContractSlotAndBidAgree ==
  /\ \A c \in DOMAIN contracts :
       \A b \in DOMAIN bids :
         bids[b].id = contracts[c].winningBidId =>
           LET slotStatus == slots[contracts[c].slotId].status
               escrowStatus == bids[b].escrowStatus
           IN  /\ contracts[c].status = "ACTIVE" <=>
                    (slotStatus = "IN_PROGRESS" /\ escrowStatus = "LOCKED")
               /\ contracts[c].status = "COMPLETED" <=>
                    (slotStatus = "COMPLETED" /\ escrowStatus = "RELEASED")
               /\ contracts[c].status = "BREACH" <=>
                    (slotStatus = "BREACH" /\ escrowStatus = "REFUNDED")
  /\ \A s \in DOMAIN slots :
       slots[s].status \in {"OPEN", "VOID"} =>
         \A c \in DOMAIN contracts : contracts[c].slotId # s

\* C33: in every state, a profile has activeSlotId = s if and only if s is a
\* slot of that issuer with status OPEN or IN_PROGRESS.
ActiveSlotIsTheLiveSlot ==
  \A u \in DOMAIN profiles :
    \A s \in DOMAIN slots :
      profiles[u].activeSlotId = s <=>
        (slots[s].executiveId = u /\ slots[s].status \in {"OPEN", "IN_PROGRESS"})

\* C34: no instant accepts both outcomes of a contract: a completeContract
\* call is accepted only while now <= deadlineAt and an autoBreachContract
\* call only when now > deadlineAt.
CompletionOrBreachAtAnyInstant ==
  [][\A tx \in BagToSet(open') :
       Started(tx) =>
         /\ tx.op = "completeContract" => now <= tx.record.deadlineAt
         /\ tx.op = "autoBreachContract" => now > tx.record.deadlineAt]_vars

\* C35: every bidCreated or auctionClosed event delivered to the notifier
\* describes a change that the step that emitted it committed: the bid of a
\* bidCreated event is a row of bids, the slot of an auctionClosed event has
\* the status the event announces.
EventsDescribeCommittedChanges ==
  \A i \in DOMAIN events :
    /\ events[i].type = "bidCreated" =>
         \E b \in DOMAIN bids : bids[b] = events[i].payload
    /\ events[i].type = "auctionClosed" =>
         slots[events[i].payload.slotId].status = events[i].payload.status

\* C36: a contract is created with the issuer's reserve price <= its clearing
\* price <= the amount of its winning bid, and its winning bid is a bid of the
\* contract's slot that is LOCKED when the contract is created.
ContractWithinReserveAndBid ==
  [][Len(contracts') > Len(contracts) =>
       LET created == contracts'[Len(contracts')]
       IN  \E b \in DOMAIN bids :
             /\ bids[b].id = created.winningBidId
             /\ bids[b].slotId = created.slotId
             /\ bids[b].escrowStatus = "LOCKED"
             /\ profiles[slots[created.slotId].executiveId].reservePrice <= created.clearingPrice
             /\ created.clearingPrice <= bids[b].amount]_vars

\* a contract cleared at 70, between the reserve price of 60 and the winning
\* bid of 100
ClearedBetweenReserveAndBid ==
  \E c \in DOMAIN contracts :
    /\ contracts[c].clearingPrice = 70
    /\ profiles[slots[contracts[c].slotId].executiveId].reservePrice = 60
    /\ \E b \in DOMAIN bids :
         /\ bids[b].id = contracts[c].winningBidId
         /\ bids[b].slotId = contracts[c].slotId
         /\ bids[b].amount = 100

\* C37: after a closeAuction that aborted, no bid is LOCKED on an OPEN slot
\* while the gateway has refunded funds of that bid.
NoRefundedBidLeftLocked ==
  \A b \in DOMAIN bids :
    (bids[b].escrowStatus = "LOCKED" /\ slots[bids[b].slotId].status = "OPEN") =>
      Moved(bids[b].id, "refundToOwner") = 0

\* C38: no step leaves a slot with status AUCTION_CLOSED in the store: a
\* closeAuction that has marked the slot and commits ends with the slot VOID or
\* IN_PROGRESS, and one that aborts leaves the slot OPEN.
AuctionClosedNeverCommitted ==
  [][/\ \A s \in DOMAIN slots' : slots'[s].status # "AUCTION_CLOSED"
     /\ \A tx \in BagToSet(open) :
          (tx.op = "closeAuction" /\ tx.pending = "AUCTION_CLOSED" /\ Ended(tx)) =>
            IF Committed(ret')
              THEN slots'[tx.id].status \in {"VOID", "IN_PROGRESS"}
              ELSE slots'[tx.id].status = "OPEN"]_vars

\* a closeAuction has committed a contract while another closeAuction is open
ClosedIntoProgress ==
  /\ Committed(ret)
  /\ ret.status = "IN_PROGRESS"
  /\ slots[ret.id].status = "IN_PROGRESS"
  /\ \E tx \in BagToSet(open) : tx.op = "closeAuction"
====
